---------------------------- MODULE Spec2Model ----------------------------
(***************************************************************************)
(* A model of the shapefile codec: the 100-byte file header               *)
(* (src/header.rs) and the polyline / polygon record codecs               *)
(* (src/record/poly.rs).                                                  *)
(*                                                                         *)
(* Bytes are numbers 0..255.  An i32 is an integer in -2^31 .. 2^31-1.     *)
(* An f64 is its IEEE-754 bit pattern, written as the tuple of its 8      *)
(* bytes, most significant first; two f64 are the same value when their   *)
(* bit patterns are equal.  A byte source is a finite sequence of bytes,  *)
(* optionally followed by as many zero bytes as any later read asks for   *)
(* (a file of several GiB, or a cursor chained with io::repeat(0)).       *)
(***************************************************************************)
EXTENDS Integers, Sequences, FiniteSets, TLC

VARIABLES
    pc,           \* position of the driver: which operation ran last
    hdr,          \* the Header value handed to Header::write_to
    hbuf,         \* the byte buffer the header codec writes to / reads from
    hres,         \* the result of the last header operation
    kind,         \* the shape variant under test
    shape,        \* the polyline / polygon value handed to write_to
    src,          \* the byte source handed to read_shape_content
    record_size,  \* the record_size argument of read_shape_content
    res,          \* the result of read_shape_content
    wres,         \* the result of write_to of the shape
    call,         \* the function called on its own, with its arguments
    ret           \* what that call returned

vars == <<pc, hdr, hbuf, hres, kind, shape, src, record_size, res, wres,
          call, ret>>

(***************************************************************************)
(* Bounds of the model.                                                    *)
(***************************************************************************)
\* longest point sequence of a shape built for encoding
MaxPoints == 2
\* a decoded vector longer than this is kept as its length and its first
\* VecCap elements
VecCap == 4
\* number of 4-byte words appended after a header to make an over-long source
MaxExtra == 1
\* largest num_parts written into a source prepared by hand
MaxParts == 2
\* largest num_points and num_parts handed to size_of_record on its own
MaxSizePoints == 10
MaxSizeParts == 3
\* most line strings of a multi-line-string, and most points of each
MaxLines == 3
MaxLineLen == 2
\* most interior rings of a polygon
MaxInteriors == 2

(***************************************************************************)
(* Sizes of the primitive types.                                           *)
(***************************************************************************)
SizeOfI32 == 4
SizeOfF64 == 8

Min(a, b) == IF a <= b THEN a ELSE b

RECURSIVE Concat(_)
\* the concatenation of a sequence of byte sequences
Concat(ss) == IF ss = <<>> THEN <<>> ELSE Head(ss) \o Concat(Tail(ss))

Zeros(n) == [i \in 1..n |-> 0]

Reverse(s) == [i \in 1..Len(s) |-> s[Len(s) + 1 - i]]

(***************************************************************************)
(* byteorder: integers.  Two's complement, 4 bytes.                        *)
(***************************************************************************)
\* byte k (0 = least significant) of the two's complement form of v
ByteOf(v, k) ==
    CASE k = 0 -> v % 256
      [] k = 1 -> (v \div 256) % 256
      [] k = 2 -> (v \div 65536) % 256
      [] OTHER -> (v \div 16777216) % 256

\* the i32 whose bytes, least significant first, are b0 b1 b2 b3
I32OfBytes(b0, b1, b2, b3) ==
    b0 + 256 * b1 + 65536 * b2
       + 16777216 * (IF b3 >= 128 THEN b3 - 256 ELSE b3)

write_i32_LittleEndian(v) == <<ByteOf(v, 0), ByteOf(v, 1), ByteOf(v, 2), ByteOf(v, 3)>>
write_i32_BigEndian(v) == <<ByteOf(v, 3), ByteOf(v, 2), ByteOf(v, 1), ByteOf(v, 0)>>

\* the value of 4 bytes in stream order
i32_from_LittleEndian(b) == I32OfBytes(b[1], b[2], b[3], b[4])
i32_from_BigEndian(b) == I32OfBytes(b[4], b[3], b[2], b[1])

(***************************************************************************)
(* byteorder: doubles.  The little-endian form of an f64 is its bit       *)
(* pattern with the least significant byte first.                         *)
(***************************************************************************)
write_f64_LittleEndian(f) == Reverse(f)
f64_from_LittleEndian(b) == Reverse(b)

\* a few doubles, by bit pattern
F0 == <<0, 0, 0, 0, 0, 0, 0, 0>>
F1 == <<63, 240, 0, 0, 0, 0, 0, 0>>
F2 == <<64, 0, 0, 0, 0, 0, 0, 0>>
F3 == <<64, 8, 0, 0, 0, 0, 0, 0>>
F4 == <<64, 16, 0, 0, 0, 0, 0, 0>>
F5 == <<64, 20, 0, 0, 0, 0, 0, 0>>
F6 == <<64, 24, 0, 0, 0, 0, 0, 0>>
FNeg1 == <<191, 240, 0, 0, 0, 0, 0, 0>>
\* -10e38
NO_DATA == <<200, 7, 130, 135, 244, 156, 74, 29>>

RECURSIVE LexLess(_, _)
\* a < b for two byte sequences of the same length, most significant first
LexLess(a, b) ==
    IF a = <<>> THEN FALSE
    ELSE IF Head(a) # Head(b) THEN Head(a) < Head(b)
    ELSE LexLess(Tail(a), Tail(b))

\* a < b as doubles (neither is a NaN): sign bit first, then magnitude
F64Less(a, b) ==
    LET na == a[1] >= 128
        nb == b[1] >= 128
        ma == <<a[1] % 128>> \o Tail(a)
        mb == <<b[1] % 128>> \o Tail(b)
    IN  IF na /\ ~nb THEN ~(ma = F0 /\ mb = F0)
        ELSE IF ~na /\ nb THEN FALSE
        ELSE IF na THEN LexLess(mb, ma)
        ELSE LexLess(ma, mb)

F64Min(a, b) == IF F64Less(b, a) THEN b ELSE a
F64Max(a, b) == IF F64Less(a, b) THEN b ELSE a

(***************************************************************************)
(* Byte sources.  A position is a byte count kept as q * 2^30 + r         *)
(* (0 <= r < 2^30): a decoder handed a count near 2^31 moves past 2^32.    *)
(***************************************************************************)
TwoTo30 == 1024 * 1024 * 1024

Big(q, r) == [q |-> q, r |-> r]
BigZero == Big(0, 0)
BigNorm(q, r) == Big(q + (r \div TwoTo30), r % TwoTo30)
BigOfNat(n) == BigNorm(0, n)
BigAdd(a, b) == BigNorm(a.q + b.q, a.r + b.r)
\* k * n for k in {4, 8, 16} and 0 <= n < 2^31
BigTimes(k, n) ==
    LET m == TwoTo30 \div k IN Big(n \div m, (n % m) * k)
\* a + n for a small n
BigPlus(a, n) == BigNorm(a.q, a.r + n)
\* the usize a, cast to i32: its low 32 bits as a two's complement number
AsI32(a) ==
    LET h == a.q % 4 IN (IF h >= 2 THEN h - 4 ELSE h) * TwoTo30 + a.r
BigLeqNat(a, n) == a.q = 0 /\ a.r <= n

Source(bytes, tail) == [bytes |-> bytes, tail |-> tail]

\* whether n more bytes can be read at position pos
Avail(s, pos, n) == s.tail \/ BigLeqNat(BigPlus(pos, n), Len(s.bytes))

\* the i-th byte (from 1) at position pos
ByteAt(s, pos, i) ==
    IF pos.q = 0 /\ pos.r + i <= Len(s.bytes) THEN s.bytes[pos.r + i] ELSE 0

\* the n bytes (n small) at position pos
BytesAt(s, pos, n) == [i \in 1..n |-> ByteAt(s, pos, i)]

\* whether n items of k bytes each (k in {4, 8, 16}) can be read at pos
AvailBulk(s, pos, k, n) ==
    s.tail \/ (n <= Len(s.bytes)
               /\ BigLeqNat(BigAdd(pos, BigTimes(k, n)), Len(s.bytes)))

\* the little-endian f64 at position pos plus off
F64At(s, pos, off) ==
    f64_from_LittleEndian(BytesAt(s, BigPlus(pos, off), SizeOfF64))

(***************************************************************************)
(* Points, bounding boxes and the record-level read / write helpers       *)
(* (record/mod.rs, record/io.rs).                                          *)
(***************************************************************************)
Kinds == {"Polyline", "PolylineM", "PolylineZ", "Polygon", "PolygonM", "PolygonZ"}
MKinds == {"PolylineM", "PolygonM"}
ZKinds == {"PolylineZ", "PolygonZ"}

\* the point type of a variant: Point, PointM or PointZ
PointType(k) ==
    IF k \in ZKinds THEN "PointZ" ELSE IF k \in MKinds THEN "PointM" ELSE "Point"

\* PointType::default()
PointDefault(pt) ==
    CASE pt = "Point" -> [x |-> F0, y |-> F0]
      [] pt = "PointM" -> [x |-> F0, y |-> F0, m |-> NO_DATA]
      [] pt = "PointZ" -> [x |-> F0, y |-> F0, z |-> F0, m |-> NO_DATA]

SizeOfPoint == 2 * SizeOfF64

BBox(xmin, ymin, xmax, ymax) ==
    [xmin |-> xmin, ymin |-> ymin, xmax |-> xmax, ymax |-> ymax]

RECURSIVE MinOf(_)
\* the least of a non-empty sequence of doubles
MinOf(fs) == IF Len(fs) = 1 THEN fs[1] ELSE F64Min(Head(fs), MinOf(Tail(fs)))

RECURSIVE MaxOf(_)
\* the greatest of a non-empty sequence of doubles
MaxOf(fs) == IF Len(fs) = 1 THEN fs[1] ELSE F64Max(Head(fs), MaxOf(Tail(fs)))

\* the (min, max) of a sequence of doubles, (0, 0) when it is empty
RangeOf(fs) == IF fs = <<>> THEN <<F0, F0>> ELSE <<MinOf(fs), MaxOf(fs)>>

\* BBox::from_points
BBox_from_points(points) ==
    LET xs == RangeOf([i \in 1..Len(points) |-> points[i].x])
        ys == RangeOf([i \in 1..Len(points) |-> points[i].y])
    IN  BBox(xs[1], ys[1], xs[2], ys[2])

\* BBox::read_from
BBox_read_from(s, pos) ==
    IF ~Avail(s, pos, 4 * SizeOfF64)
    THEN [ok |-> FALSE, pos |-> pos]
    ELSE [ok |-> TRUE, pos |-> BigPlus(pos, 4 * SizeOfF64),
          val |-> BBox(F64At(s, pos, 0), F64At(s, pos, SizeOfF64),
                       F64At(s, pos, 2 * SizeOfF64), F64At(s, pos, 3 * SizeOfF64))]

\* BBox::write_to
BBox_write_to(b) ==
    Concat(<<write_f64_LittleEndian(b.xmin), write_f64_LittleEndian(b.ymin),
             write_f64_LittleEndian(b.xmax), write_f64_LittleEndian(b.ymax)>>)

\* source.read_i32::<LittleEndian>()
read_i32_LittleEndian(s, pos) ==
    IF ~Avail(s, pos, SizeOfI32)
    THEN [ok |-> FALSE, pos |-> pos]
    ELSE [ok |-> TRUE, pos |-> BigPlus(pos, SizeOfI32),
          val |-> i32_from_LittleEndian(BytesAt(s, pos, SizeOfI32))]

\* read_parts(source, num_parts), for num_parts >= 0
read_parts(s, pos, n) ==
    IF ~AvailBulk(s, pos, SizeOfI32, n)
    THEN [ok |-> FALSE, pos |-> pos]
    ELSE [ok |-> TRUE, pos |-> BigAdd(pos, BigTimes(SizeOfI32, n)),
          val |-> [i \in 1..Min(n, VecCap) |->
                     i32_from_LittleEndian(
                         BytesAt(s, BigPlus(pos, SizeOfI32 * (i - 1)), SizeOfI32))]]

\* read_xy_in_vec_of::<PointType>(source, num_points), for num_points >= 0
read_xy_in_vec_of(pt, s, pos, n) ==
    IF ~AvailBulk(s, pos, SizeOfPoint, n)
    THEN [ok |-> FALSE, pos |-> pos]
    ELSE [ok |-> TRUE, pos |-> BigAdd(pos, BigTimes(SizeOfPoint, n)),
          val |-> [i \in 1..Min(n, VecCap) |->
                     [PointDefault(pt) EXCEPT
                        !.x = F64At(s, pos, SizeOfPoint * (i - 1)),
                        !.y = F64At(s, pos, SizeOfPoint * (i - 1) + SizeOfF64)]]]

\* read_range(source)
read_range(s, pos) ==
    IF ~Avail(s, pos, 2 * SizeOfF64)
    THEN [ok |-> FALSE, pos |-> pos]
    ELSE [ok |-> TRUE, pos |-> BigPlus(pos, 2 * SizeOfF64),
          val |-> <<F64At(s, pos, 0), F64At(s, pos, SizeOfF64)>>]

\* read_zs_into(source, &mut points), points holding n points
read_zs_into(s, pos, points, n) ==
    IF ~AvailBulk(s, pos, SizeOfF64, n)
    THEN [ok |-> FALSE, pos |-> pos]
    ELSE [ok |-> TRUE, pos |-> BigAdd(pos, BigTimes(SizeOfF64, n)),
          val |-> [i \in 1..Len(points) |->
                     [points[i] EXCEPT !.z = F64At(s, pos, SizeOfF64 * (i - 1))]]]

\* read_ms_into(source, &mut points), points holding n points
read_ms_into(s, pos, points, n) ==
    IF ~AvailBulk(s, pos, SizeOfF64, n)
    THEN [ok |-> FALSE, pos |-> pos]
    ELSE [ok |-> TRUE, pos |-> BigAdd(pos, BigTimes(SizeOfF64, n)),
          val |-> [i \in 1..Len(points) |->
                     [points[i] EXCEPT !.m = F64At(s, pos, SizeOfF64 * (i - 1))]]]

\* write_parts(dest, &parts)
write_parts(parts) ==
    Concat([i \in 1..Len(parts) |-> write_i32_LittleEndian(parts[i])])

\* write_points(dest, &points): x then y of every point
write_points(points) ==
    Concat([i \in 1..Len(points) |->
               write_f64_LittleEndian(points[i].x)
                   \o write_f64_LittleEndian(points[i].y)])

\* write_range(dest, range)
write_range(r) == write_f64_LittleEndian(r[1]) \o write_f64_LittleEndian(r[2])

\* write_zs(dest, &points)
write_zs(points) ==
    Concat([i \in 1..Len(points) |-> write_f64_LittleEndian(points[i].z)])

\* write_ms(dest, &points)
write_ms(points) ==
    Concat([i \in 1..Len(points) |-> write_f64_LittleEndian(points[i].m)])

\* calc_z_range(&points)
calc_z_range(points) == RangeOf([i \in 1..Len(points) |-> points[i].z])

\* m is "no data": m <= NO_DATA
is_no_data(m) == ~F64Less(NO_DATA, m)

\* calc_m_range(&points): over the points whose m is not "no data"
calc_m_range(points) ==
    RangeOf(SelectSeq([i \in 1..Len(points) |-> points[i].m],
                      LAMBDA m : ~is_no_data(m)))

\* is_parts_array_valid(&shape)
is_parts_array_valid(sh) ==
    /\ sh.parts # <<>>
    /\ sh.parts[1] = 0
    /\ \A i \in 1..(Len(sh.parts) - 1) : sh.parts[i] < sh.parts[i + 1]
    /\ \A i \in 1..Len(sh.parts) : sh.parts[i] >= 0 /\ sh.parts[i] < Len(sh.points)

(***************************************************************************)
(* The shape-type registry.                                                *)
(***************************************************************************)
ShapeTypes ==
    {"NullShape", "Point", "Polyline", "Polygon", "Multipoint",
     "PointZ", "PolylineZ", "PolygonZ", "MultipointZ",
     "PointM", "PolylineM", "PolygonM", "MultipointM"}

\* ShapeType as i32
ShapeTypeCode(t) ==
    CASE t = "NullShape" -> 0
      [] t = "Point" -> 1
      [] t = "Polyline" -> 3
      [] t = "Polygon" -> 5
      [] t = "Multipoint" -> 8
      [] t = "PointZ" -> 11
      [] t = "PolylineZ" -> 13
      [] t = "PolygonZ" -> 15
      [] t = "MultipointZ" -> 18
      [] t = "PointM" -> 21
      [] t = "PolylineM" -> 23
      [] t = "PolygonM" -> 25
      [] t = "MultipointM" -> 28

\* ShapeType::read_from: a little-endian i32, then the lookup of the tag
ShapeType_read_from(s, pos) ==
    IF ~Avail(s, pos, SizeOfI32)
    THEN [status |-> "IoError", pos |-> pos]
    ELSE LET code == i32_from_LittleEndian(BytesAt(s, pos, SizeOfI32))
             next == BigPlus(pos, SizeOfI32)
         IN  IF \E t \in ShapeTypes : ShapeTypeCode(t) = code
             THEN [status |-> "Ok", pos |-> next,
                   val |-> CHOOSE t \in ShapeTypes : ShapeTypeCode(t) = code]
             ELSE [status |-> "InvalidShapeType", pos |-> next, code |-> code]

(***************************************************************************)
(* The header codec.                                                       *)
(***************************************************************************)
HEADER_SIZE == 100
FILE_CODE == 9994
SIZE_OF_SKIP == SizeOfI32 * 5

Header_default ==
    [point_min |-> <<F0, F0, F0>>,
     point_max |-> <<F0, F0, F0>>,
     m_range |-> <<F0, F0>>,
     shape_type |-> "NullShape",
     file_length |-> HEADER_SIZE \div 2,
     version |-> 1000]

\* one read_i32 / read_f64 of the header: the bytes at pos, or an I/O error
ReadField(s, pos, n) ==
    IF Avail(s, pos, n)
    THEN [ok |-> TRUE, bytes |-> BytesAt(s, pos, n), pos |-> BigPlus(pos, n)]
    ELSE [ok |-> FALSE, pos |-> pos]

HdrErr(status, pos) == [status |-> status, consumed |-> pos]

\* the eight doubles of Header::read_from, in the order the code reads them
Header_read_doubles(s, pos, h0) ==
    LET f(k) == ReadField(s, BigPlus(pos, SizeOfF64 * k), SizeOfF64)
        v(k) == f64_from_LittleEndian(f(k).bytes)
    IN  IF \E k \in 0..7 : ~f(k).ok
        THEN HdrErr("IoError",
                    BigPlus(pos, SizeOfF64 * (CHOOSE k \in 0..7 :
                        ~f(k).ok /\ \A j \in 0..(k - 1) : f(j).ok)))
        ELSE [status |-> "Ok",
              consumed |-> BigPlus(pos, SizeOfF64 * 8),
              val |-> [h0 EXCEPT
                         !.point_min = <<v(0), v(1), v(4)>>,
                         !.point_max = <<v(2), v(3), v(5)>>,
                         !.m_range = <<v(6), v(7)>>]]

\* Header::read_from with the unknown shape-type code mapped to NullShape
\* instead of being returned as an error
Header_read_rest_lenient(s, pos) ==
    LET r2 == ReadField(s, pos, SIZE_OF_SKIP)
    IN  IF ~r2.ok THEN HdrErr("IoError", r2.pos) ELSE
    LET r3 == ReadField(s, r2.pos, SizeOfI32)
    IN  IF ~r3.ok THEN HdrErr("IoError", r3.pos) ELSE
    LET r4 == ReadField(s, r3.pos, SizeOfI32)
    IN  IF ~r4.ok THEN HdrErr("IoError", r4.pos) ELSE
    LET r5 == ShapeType_read_from(s, r4.pos)
    IN  IF r5.status = "IoError" THEN HdrErr("IoError", r5.pos)
        ELSE Header_read_doubles(s, r5.pos,
                 [Header_default EXCEPT
                     !.shape_type = IF r5.status = "Ok" THEN r5.val
                                    ELSE "NullShape",
                     !.version = i32_from_LittleEndian(r4.bytes),
                     !.file_length = i32_from_BigEndian(r3.bytes)])

\* Header::read_from after the file code: the unused bytes, the length, the
\* version, the shape type and the ranges
Header_read_rest(s, pos) ==
    LET r2 == ReadField(s, pos, SIZE_OF_SKIP)
    IN  IF ~r2.ok THEN HdrErr("IoError", r2.pos) ELSE
    LET r3 == ReadField(s, r2.pos, SizeOfI32)
    IN  IF ~r3.ok THEN HdrErr("IoError", r3.pos) ELSE
    LET file_length_16_bit == i32_from_BigEndian(r3.bytes)
        r4 == ReadField(s, r3.pos, SizeOfI32)
    IN  IF ~r4.ok THEN HdrErr("IoError", r4.pos) ELSE
    LET version == i32_from_LittleEndian(r4.bytes)
        r5 == ShapeType_read_from(s, r4.pos)
    IN  IF r5.status = "IoError" THEN HdrErr("IoError", r5.pos)
        ELSE IF r5.status # "Ok"
        THEN [status |-> r5.status, code |-> r5.code, consumed |-> r5.pos]
        ELSE Header_read_doubles(s, r5.pos,
                 [Header_default EXCEPT !.shape_type = r5.val,
                                        !.version = version,
                                        !.file_length = file_length_16_bit])

\* Header::read_from with the unused bytes read before the file code is
\* checked
Header_read_from_skip_first(s) ==
    LET r1 == ReadField(s, BigZero, SizeOfI32)
    IN  IF ~r1.ok THEN HdrErr("IoError", r1.pos) ELSE
    LET file_code == i32_from_BigEndian(r1.bytes)
        r2 == ReadField(s, r1.pos, SIZE_OF_SKIP)
    IN  IF ~r2.ok THEN HdrErr("IoError", r2.pos)
        ELSE IF file_code # FILE_CODE
        THEN [status |-> "InvalidFileCode", code |-> file_code, consumed |-> r2.pos]
        ELSE Header_read_rest(s, r1.pos)

Header_read_from(s) ==
    LET r1 == ReadField(s, BigZero, SizeOfI32)
    IN  IF ~r1.ok THEN HdrErr("IoError", r1.pos) ELSE
    LET file_code == i32_from_BigEndian(r1.bytes)
    IN  IF file_code # FILE_CODE
        THEN [status |-> "InvalidFileCode", code |-> file_code, consumed |-> r1.pos]
        ELSE Header_read_rest(s, r1.pos)

\* Header::write_to with the file length written little-endian
Header_write_to_length_le(h) ==
    Concat(<<write_i32_BigEndian(FILE_CODE),
             Zeros(SIZE_OF_SKIP),
             write_i32_LittleEndian(h.file_length),
             write_i32_LittleEndian(h.version),
             write_i32_LittleEndian(ShapeTypeCode(h.shape_type)),
             write_f64_LittleEndian(h.point_min[1]),
             write_f64_LittleEndian(h.point_min[2]),
             write_f64_LittleEndian(h.point_max[1]),
             write_f64_LittleEndian(h.point_max[2]),
             write_f64_LittleEndian(h.point_min[3]),
             write_f64_LittleEndian(h.point_max[3]),
             write_f64_LittleEndian(h.m_range[1]),
             write_f64_LittleEndian(h.m_range[2])>>)

\* Header::write_to with the ranges written in field order: point_min,
\* point_max, m_range
Header_write_to_field_order(h) ==
    Concat(<<write_i32_BigEndian(FILE_CODE),
             Zeros(SIZE_OF_SKIP),
             write_i32_BigEndian(h.file_length),
             write_i32_LittleEndian(h.version),
             write_i32_LittleEndian(ShapeTypeCode(h.shape_type)),
             write_f64_LittleEndian(h.point_min[1]),
             write_f64_LittleEndian(h.point_min[2]),
             write_f64_LittleEndian(h.point_min[3]),
             write_f64_LittleEndian(h.point_max[1]),
             write_f64_LittleEndian(h.point_max[2]),
             write_f64_LittleEndian(h.point_max[3]),
             write_f64_LittleEndian(h.m_range[1]),
             write_f64_LittleEndian(h.m_range[2])>>)

\* Header::write_to on a sink that accepts every write: the bytes written
Header_write_to(h) ==
    Concat(<<write_i32_BigEndian(FILE_CODE),
             Zeros(SIZE_OF_SKIP),
             write_i32_BigEndian(h.file_length),
             write_i32_LittleEndian(h.version),
             write_i32_LittleEndian(ShapeTypeCode(h.shape_type)),
             write_f64_LittleEndian(h.point_min[1]),
             write_f64_LittleEndian(h.point_min[2]),
             write_f64_LittleEndian(h.point_max[1]),
             write_f64_LittleEndian(h.point_max[2]),
             write_f64_LittleEndian(h.point_min[3]),
             write_f64_LittleEndian(h.point_max[3]),
             write_f64_LittleEndian(h.m_range[1]),
             write_f64_LittleEndian(h.m_range[2])>>)

(***************************************************************************)
(* The polyline / polygon codecs.  A size is a usize of 64 bits, kept as  *)
(* a position is; a decoder result carries the number of bytes consumed   *)
(* and whether the Z and M blocks were read.  The counts read from a      *)
(* source are taken non-negative: what the helpers of record/io.rs do     *)
(* with a negative count is not modelled.                                  *)
(***************************************************************************)
\* GenericPolyline::new / GenericPolygon::new
GenericPolyline_new(points, parts) ==
    [bbox |-> BBox_from_points(points), points |-> points, parts |-> parts]

\* Polyline::size_of_record
Polyline_size_of_record(num_points, num_parts) ==
    BigAdd(BigOfNat(4 * SizeOfF64 + SizeOfI32 + SizeOfI32),
           BigAdd(BigTimes(SizeOfI32, num_parts),
                  BigTimes(SizeOfPoint, num_points)))

\* PolylineM::size_of_record
PolylineM_size_of_record(num_points, num_parts, is_m_used) ==
    LET size == Polyline_size_of_record(num_points, num_parts)
    IN  IF is_m_used
        THEN BigAdd(BigPlus(size, 2 * SizeOfF64), BigTimes(SizeOfF64, num_points))
        ELSE size

\* PolylineZ::size_of_record
\* PolylineZ::size_of_record without the Z range and the Z values
PolylineZ_size_of_record_no_z(num_points, num_parts, is_m_used) ==
    LET size == Polyline_size_of_record(num_points, num_parts)
    IN  IF is_m_used
        THEN BigAdd(BigPlus(size, 2 * SizeOfF64), BigTimes(SizeOfF64, num_points))
        ELSE size

PolylineZ_size_of_record(num_points, num_parts, is_m_used) ==
    LET size == BigAdd(BigPlus(Polyline_size_of_record(num_points, num_parts),
                               2 * SizeOfF64),
                       BigTimes(SizeOfF64, num_points))
    IN  IF is_m_used
        THEN BigAdd(BigPlus(size, 2 * SizeOfF64), BigTimes(SizeOfF64, num_points))
        ELSE size

Fail(status, pos, z_read) ==
    [status |-> status, consumed |-> pos, z_read |-> z_read, m_read |-> FALSE]

Done(pos, z_read, m_read, num_parts, num_points, bbox, parts, points) ==
    [status |-> "Ok", consumed |-> pos, z_read |-> z_read, m_read |-> m_read,
     num_parts |-> num_parts, num_points |-> num_points,
     val |-> [bbox |-> bbox, parts |-> parts, points |-> points]]

\* Polyline::read_shape_content
Polyline_read_shape_content(s, rs) ==
    LET bbox == BBox_read_from(s, BigZero)
    IN  IF ~bbox.ok THEN Fail("IoError", bbox.pos, FALSE) ELSE
    LET num_parts == read_i32_LittleEndian(s, bbox.pos)
    IN  IF ~num_parts.ok THEN Fail("IoError", num_parts.pos, FALSE) ELSE
    LET num_points == read_i32_LittleEndian(s, num_parts.pos)
    IN  IF ~num_points.ok THEN Fail("IoError", num_points.pos, FALSE) ELSE
        IF rs # AsI32(Polyline_size_of_record(num_points.val, num_parts.val))
        THEN Fail("InvalidShapeRecordSize", num_points.pos, FALSE) ELSE
    LET parts == read_parts(s, num_points.pos, num_parts.val)
    IN  IF ~parts.ok THEN Fail("IoError", parts.pos, FALSE) ELSE
    LET points == read_xy_in_vec_of("Point", s, parts.pos, num_points.val)
    IN  IF ~points.ok THEN Fail("IoError", points.pos, FALSE)
        ELSE Done(points.pos, FALSE, FALSE, num_parts.val, num_points.val,
                  bbox.val, parts.val, points.val)

\* is_m_used computed from the size that does not hold the M block
is_m_used_inverted(rs, record_size_with_m, record_size_without_m) ==
    rs = record_size_without_m

\* is_m_used that prefers the form without M when both sizes match
is_m_used_strict(rs, record_size_with_m, record_size_without_m) ==
    rs = record_size_with_m /\ rs # record_size_without_m

\* let is_m_used = record_size == record_size_with_m
is_m_used(rs, record_size_with_m, record_size_without_m) ==
    rs = record_size_with_m

\* PolylineM::read_shape_content
PolylineM_read_shape_content(s, rs) ==
    LET bbox == BBox_read_from(s, BigZero)
    IN  IF ~bbox.ok THEN Fail("IoError", bbox.pos, FALSE) ELSE
    LET num_parts == read_i32_LittleEndian(s, bbox.pos)
    IN  IF ~num_parts.ok THEN Fail("IoError", num_parts.pos, FALSE) ELSE
    LET num_points == read_i32_LittleEndian(s, num_parts.pos)
    IN  IF ~num_points.ok THEN Fail("IoError", num_points.pos, FALSE) ELSE
    LET parts == read_parts(s, num_points.pos, num_parts.val)
    IN  IF ~parts.ok THEN Fail("IoError", parts.pos, FALSE) ELSE
    LET record_size_with_m ==
            AsI32(PolylineM_size_of_record(num_points.val, num_parts.val, TRUE))
        record_size_without_m ==
            AsI32(PolylineM_size_of_record(num_points.val, num_parts.val, FALSE))
    IN  IF rs # record_size_with_m /\ rs # record_size_without_m
        THEN Fail("InvalidShapeRecordSize", parts.pos, FALSE) ELSE
    LET m_used == is_m_used(rs, record_size_with_m, record_size_without_m)
        points == read_xy_in_vec_of("PointM", s, parts.pos, num_points.val)
    IN  IF ~points.ok THEN Fail("IoError", points.pos, FALSE) ELSE
        IF ~m_used
        THEN Done(points.pos, FALSE, FALSE, num_parts.val, num_points.val,
                  bbox.val, parts.val, points.val) ELSE
    LET m_range == read_range(s, points.pos)
    IN  IF ~m_range.ok THEN Fail("IoError", m_range.pos, FALSE) ELSE
    LET ms == read_ms_into(s, m_range.pos, points.val, num_points.val)
    IN  IF ~ms.ok THEN Fail("IoError", ms.pos, FALSE)
        ELSE Done(ms.pos, FALSE, TRUE, num_parts.val, num_points.val,
                  bbox.val, parts.val, ms.val)

\* PolylineZ::read_shape_content
PolylineZ_read_shape_content(s, rs) ==
    LET bbox == BBox_read_from(s, BigZero)
    IN  IF ~bbox.ok THEN Fail("IoError", bbox.pos, FALSE) ELSE
    LET num_parts == read_i32_LittleEndian(s, bbox.pos)
    IN  IF ~num_parts.ok THEN Fail("IoError", num_parts.pos, FALSE) ELSE
    LET num_points == read_i32_LittleEndian(s, num_parts.pos)
    IN  IF ~num_points.ok THEN Fail("IoError", num_points.pos, FALSE) ELSE
    LET record_size_with_m ==
            AsI32(PolylineZ_size_of_record(num_points.val, num_parts.val, TRUE))
        record_size_without_m ==
            AsI32(PolylineZ_size_of_record(num_points.val, num_parts.val, FALSE))
    IN  IF rs # record_size_with_m /\ rs # record_size_without_m
        THEN Fail("InvalidShapeRecordSize", num_points.pos, FALSE) ELSE
    LET m_used == is_m_used(rs, record_size_with_m, record_size_without_m)
        parts == read_parts(s, num_points.pos, num_parts.val)
    IN  IF ~parts.ok THEN Fail("IoError", parts.pos, FALSE) ELSE
    LET points == read_xy_in_vec_of("PointZ", s, parts.pos, num_points.val)
    IN  IF ~points.ok THEN Fail("IoError", points.pos, FALSE) ELSE
    LET z_range == read_range(s, points.pos)
    IN  IF ~z_range.ok THEN Fail("IoError", z_range.pos, FALSE) ELSE
    LET zs == read_zs_into(s, z_range.pos, points.val, num_points.val)
    IN  IF ~zs.ok THEN Fail("IoError", zs.pos, FALSE) ELSE
        IF ~m_used
        THEN Done(zs.pos, TRUE, FALSE, num_parts.val, num_points.val,
                  bbox.val, parts.val, zs.val) ELSE
    LET m_range == read_range(s, zs.pos)
    IN  IF ~m_range.ok THEN Fail("IoError", m_range.pos, TRUE) ELSE
    LET ms == read_ms_into(s, m_range.pos, zs.val, num_points.val)
    IN  IF ~ms.ok THEN Fail("IoError", ms.pos, TRUE)
        ELSE Done(ms.pos, TRUE, TRUE, num_parts.val, num_points.val,
                  bbox.val, parts.val, ms.val)

\* Polygon::read_shape_content, PolygonM::.., PolygonZ::..: the polyline
\* decoder, its result converted field by field
Polygon_read_shape_content(s, rs) == Polyline_read_shape_content(s, rs)
PolygonM_read_shape_content(s, rs) == PolylineM_read_shape_content(s, rs)
PolygonZ_read_shape_content(s, rs) == PolylineZ_read_shape_content(s, rs)

\* <K as ConcreteReadableShape>::read_shape_content for the variant k
read_shape_content(k, s, rs) ==
    CASE k = "Polyline" -> Polyline_read_shape_content(s, rs)
      [] k = "PolylineM" -> PolylineM_read_shape_content(s, rs)
      [] k = "PolylineZ" -> PolylineZ_read_shape_content(s, rs)
      [] k = "Polygon" -> Polygon_read_shape_content(s, rs)
      [] k = "PolygonM" -> PolygonM_read_shape_content(s, rs)
      [] k = "PolygonZ" -> PolygonZ_read_shape_content(s, rs)

\* size_in_bytes of the six variants
Polyline_size_in_bytes(sh) ==
    4 * SizeOfF64 + SizeOfI32 + SizeOfI32 + SizeOfI32 * Len(sh.parts)
        + 2 * SizeOfF64 * Len(sh.points)
PolylineM_size_in_bytes(sh) ==
    SizeOfF64 * 4 + SizeOfI32 + SizeOfI32 + SizeOfI32 * Len(sh.parts)
        + 3 * SizeOfF64 * Len(sh.points) + 2 * SizeOfF64
\* PolylineZ::size_in_bytes with one range of two doubles, not two
PolylineZ_size_in_bytes_one_range(sh) ==
    SizeOfF64 * 4 + SizeOfI32 + SizeOfI32 + SizeOfI32 * Len(sh.parts)
        + 4 * SizeOfF64 * Len(sh.points) + 2 * SizeOfF64
PolylineZ_size_in_bytes(sh) ==
    SizeOfF64 * 4 + SizeOfI32 + SizeOfI32 + SizeOfI32 * Len(sh.parts)
        + 4 * SizeOfF64 * Len(sh.points) + 2 * SizeOfF64 + 2 * SizeOfF64
Polygon_size_in_bytes(sh) ==
    SizeOfF64 * 4 + SizeOfI32 + SizeOfI32 + SizeOfI32 * Len(sh.parts)
        + 2 * SizeOfF64 * Len(sh.points)
PolygonM_size_in_bytes(sh) ==
    SizeOfF64 * 4 + SizeOfI32 + SizeOfI32 + SizeOfI32 * Len(sh.parts)
        + 3 * SizeOfF64 * Len(sh.points) + 2 * SizeOfF64
PolygonZ_size_in_bytes(sh) ==
    SizeOfF64 * 4 + SizeOfI32 + SizeOfI32 + SizeOfI32 * Len(sh.parts)
        + 4 * SizeOfF64 * Len(sh.points) + 2 * SizeOfF64 + 2 * SizeOfF64

size_in_bytes(k, sh) ==
    CASE k = "Polyline" -> Polyline_size_in_bytes(sh)
      [] k = "PolylineM" -> PolylineM_size_in_bytes(sh)
      [] k = "PolylineZ" -> PolylineZ_size_in_bytes(sh)
      [] k = "Polygon" -> Polygon_size_in_bytes(sh)
      [] k = "PolygonM" -> PolygonM_size_in_bytes(sh)
      [] k = "PolygonZ" -> PolygonZ_size_in_bytes(sh)

Written(bytes) == [status |-> "Ok", bytes |-> bytes]
Malformed == [status |-> "MalformedShape", bytes |-> <<>>]

\* the bytes every write_to starts with: bbox, counts, parts, x and y
write_common(sh) ==
    Concat(<<BBox_write_to(sh.bbox),
             write_i32_LittleEndian(Len(sh.parts)),
             write_i32_LittleEndian(Len(sh.points)),
             write_parts(sh.parts),
             write_points(sh.points)>>)

\* Polyline::write_to without the check of the parts array
Polyline_write_to_unchecked(sh) == Written(write_common(sh))

\* Polyline::write_to
Polyline_write_to(sh) ==
    IF ~is_parts_array_valid(sh) THEN Malformed
    ELSE Written(write_common(sh))

\* PolylineM::write_to without the M values
PolylineM_write_to_no_ms(sh) ==
    IF ~is_parts_array_valid(sh) THEN Malformed
    ELSE Written(write_common(sh) \o write_range(calc_m_range(sh.points)))

\* PolylineM::write_to
PolylineM_write_to(sh) ==
    IF ~is_parts_array_valid(sh) THEN Malformed
    ELSE Written(Concat(<<write_common(sh),
                          write_range(calc_m_range(sh.points)),
                          write_ms(sh.points)>>))

\* PolylineZ::write_to
PolylineZ_write_to(sh) ==
    IF ~is_parts_array_valid(sh) THEN Malformed
    ELSE Written(Concat(<<write_common(sh),
                          write_range(calc_z_range(sh.points)),
                          write_zs(sh.points),
                          write_range(calc_m_range(sh.points)),
                          write_ms(sh.points)>>))

\* Polygon::write_to, PolygonM::.., PolygonZ::..: the value converted to the
\* polyline of the same point type, then its write_to
Polygon_write_to(sh) == Polyline_write_to(sh)
PolygonM_write_to(sh) == PolylineM_write_to(sh)
PolygonZ_write_to(sh) == PolylineZ_write_to(sh)

write_to(k, sh) ==
    CASE k = "Polyline" -> Polyline_write_to(sh)
      [] k = "PolylineM" -> PolylineM_write_to(sh)
      [] k = "PolylineZ" -> PolylineZ_write_to(sh)
      [] k = "Polygon" -> Polygon_write_to(sh)
      [] k = "PolygonM" -> PolygonM_write_to(sh)
      [] k = "PolygonZ" -> PolygonZ_write_to(sh)

(***************************************************************************)
(* The header codec driven as a state machine: a header is written and    *)
(* read back, or a source is prepared by hand and decoded.                *)
(***************************************************************************)
NoValue == [status |-> "none"]

\* the headers handed to the encoder
Headers ==
    {[Header_default EXCEPT !.file_length = fl, !.version = ver,
                            !.shape_type = t,
                            !.point_min = r[1], !.point_max = r[2],
                            !.m_range = r[3]] :
        fl \in {HEADER_SIZE \div 2, -2},
        ver \in {1000, 16909060},
        t \in ShapeTypes,
        r \in {<<Header_default.point_min, Header_default.point_max,
                 Header_default.m_range>>,
               <<(<<F1, F2, F5>>), (<<F3, F4, F6>>), (<<FNeg1, NO_DATA>>)>>}}

\* s with the bytes from position at (from 1) on replaced by those of b
Patch(s, at, b) ==
    [i \in 1..Len(s) |->
        IF i >= at /\ i < at + Len(b) THEN b[i - at + 1] ELSE s[i]]

\* s cut to n bytes, or extended with bytes of value 1 up to n bytes
Resize(s, n) ==
    [i \in 1..n |-> IF i <= Len(s) THEN s[i] ELSE 1]

HeaderLengths ==
    {0, 3, SizeOfI32, SizeOfI32 + SIZE_OF_SKIP - 1, 36, HEADER_SIZE - 1,
     HEADER_SIZE, HEADER_SIZE + SizeOfI32 * MaxExtra}

HeaderInit ==
    /\ pc = "start"
    /\ hdr \in Headers
    /\ hbuf = <<>>
    /\ hres = NoValue
    /\ kind = "none"
    /\ shape = NoValue
    /\ src = NoValue
    /\ record_size = 0
    /\ res = NoValue
    /\ wres = NoValue
    /\ call = NoValue
    /\ ret = NoValue

ShapeVarsUnchanged ==
    UNCHANGED <<kind, shape, src, record_size, res, wres, call, ret>>

\* h.write_to(&mut buffer)
HeaderWrite ==
    /\ pc = "start"
    /\ hbuf' = Header_write_to(hdr)
    /\ pc' = "hwritten"
    /\ UNCHANGED <<hdr, hres>>
    /\ ShapeVarsUnchanged

\* a source made by hand: the file code, one unused byte and the shape-type
\* code of an encoded header are overwritten, and the buffer is cut or
\* extended
HeaderCraft ==
    /\ pc = "start"
    /\ \E code \in {FILE_CODE, 42, -1},
          skip \in {0, 7},
          st \in {ShapeTypeCode(hdr.shape_type), 2, -1},
          n \in HeaderLengths :
          hbuf' = Resize(Patch(Patch(Patch(Header_write_to(hdr),
                                           1, write_i32_BigEndian(code)),
                                     5, <<skip>>),
                               33, write_i32_LittleEndian(st)), n)
    /\ pc' = "hcrafted"
    /\ UNCHANGED <<hdr, hres>>
    /\ ShapeVarsUnchanged

\* Header::read_from(&mut Cursor::new(buffer))
HeaderRead ==
    /\ pc \in {"hwritten", "hcrafted"}
    /\ hres' = Header_read_from(Source(hbuf, FALSE))
    /\ pc' = IF pc = "hwritten" THEN "hroundtrip" ELSE "hdecoded"
    /\ UNCHANGED <<hdr, hbuf>>
    /\ ShapeVarsUnchanged

HeaderNext == HeaderWrite \/ HeaderCraft \/ HeaderRead

HeaderSpec == HeaderInit /\ [][HeaderNext]_vars

(***************************************************************************)
(* Properties of the header codec (checked under HeaderSpec).             *)
(***************************************************************************)
\* the first big-endian i32 of the buffer
FirstI32(b) == i32_from_BigEndian(SubSeq(b, 1, SizeOfI32))

\* C5: a header that is written and read back is returned, Ok, equal to the
\* written header in every field.
C5_HeaderRoundTrip ==
    pc = "hroundtrip" =>
        /\ hres.status = "Ok"
        /\ hres.val.file_length = hdr.file_length
        /\ hres.val.version = hdr.version
        /\ hres.val.shape_type = hdr.shape_type
        /\ hres.val.point_min = hdr.point_min
        /\ hres.val.point_max = hdr.point_max
        /\ hres.val.m_range = hdr.m_range

\* C5 witness: the default header has been written and read back.
C5_Witness ==
    /\ pc = "hroundtrip"
    /\ hdr = Header_default
    /\ hdr.file_length = 50 /\ hdr.version = 1000
    /\ hres.status = "Ok"

\* C6: when the first big-endian i32 v of the source is not 9994, read_from
\* fails with InvalidFileCode(v) after reading those four bytes only, also
\* when the source holds nothing else.
C6_InvalidFileCode ==
    (pc \in {"hroundtrip", "hdecoded"} /\ Len(hbuf) >= SizeOfI32
        /\ FirstI32(hbuf) # 9994) =>
        /\ hres.status = "InvalidFileCode"
        /\ hres.code = FirstI32(hbuf)
        /\ hres.consumed = BigOfNat(SizeOfI32)

\* C6 witness: a source holding only the big-endian i32 42 was decoded.
C6_Witness ==
    /\ pc = "hdecoded"
    /\ hbuf = <<0, 0, 0, 42>>
    /\ hres.status = "InvalidFileCode" /\ hres.code = 42

\* C7: write_to emits exactly 100 bytes in the fixed layout: big-endian
\* 9994, 20 zero bytes, big-endian file_length at 24, little-endian version
\* at 28 and shape-type code at 32, then xmin, ymin, xmax, ymax, zmin, zmax,
\* mmin, mmax as little-endian doubles at offsets 36..92.
C7_HeaderLayout ==
    pc = "hwritten" =>
        /\ Len(hbuf) = 100
        /\ SubSeq(hbuf, 1, 4) = <<0, 0, 39, 10>>
        /\ \A i \in 5..24 : hbuf[i] = 0
        /\ i32_from_BigEndian(SubSeq(hbuf, 25, 28)) = hdr.file_length
        /\ i32_from_LittleEndian(SubSeq(hbuf, 29, 32)) = hdr.version
        /\ i32_from_LittleEndian(SubSeq(hbuf, 33, 36)) = ShapeTypeCode(hdr.shape_type)
        /\ Reverse(SubSeq(hbuf, 37, 44)) = hdr.point_min[1]
        /\ Reverse(SubSeq(hbuf, 45, 52)) = hdr.point_min[2]
        /\ Reverse(SubSeq(hbuf, 53, 60)) = hdr.point_max[1]
        /\ Reverse(SubSeq(hbuf, 61, 68)) = hdr.point_max[2]
        /\ Reverse(SubSeq(hbuf, 69, 76)) = hdr.point_min[3]
        /\ Reverse(SubSeq(hbuf, 77, 84)) = hdr.point_max[3]
        /\ Reverse(SubSeq(hbuf, 85, 92)) = hdr.m_range[1]
        /\ Reverse(SubSeq(hbuf, 93, 100)) = hdr.m_range[2]
        /\ (hdr.file_length = 50 => SubSeq(hbuf, 25, 28) = <<0, 0, 0, 50>>)
        /\ (hdr.version = 1000 => SubSeq(hbuf, 29, 32) = <<232, 3, 0, 0>>)
        /\ (hdr.m_range[2] = NO_DATA =>
               SubSeq(hbuf, 93, 100) = <<29, 74, 156, 244, 135, 130, 7, 200>>)

\* C7 witness: a header with eight different range values, a negative file
\* length and a version whose four bytes differ has been written.
C7_Witness ==
    /\ pc = "hwritten"
    /\ hdr.point_min = <<F1, F2, F5>> /\ hdr.m_range = <<FNeg1, NO_DATA>>
    /\ hdr.file_length = -2 /\ hdr.version = 16909060
    /\ hdr.shape_type = "PolygonZ"

\* the source holds at least 100 bytes and starts with the file code
C8_Case ==
    /\ pc = "hdecoded"
    /\ Len(hbuf) >= HEADER_SIZE
    /\ FirstI32(hbuf) = FILE_CODE

\* C8 as stated: read_from of a source of at least 100 bytes that starts
\* with 9994 always returns Ok.
C8_Original == C8_Case => hres.status = "Ok"

\* C8 amended: read_from of a source of at least 100 bytes that starts with
\* 9994 returns Ok, with the unused bytes ignored and the file length, the
\* version and the eight doubles as written, exactly when the shape-type
\* code is one of the thirteen known codes; for any other code c it fails
\* with InvalidShapeType(c).
C8_HeaderAccepted ==
    C8_Case =>
        LET c == i32_from_LittleEndian(SubSeq(hbuf, 33, 36))
        IN  IF \E t \in ShapeTypes : ShapeTypeCode(t) = c
            THEN /\ hres.status = "Ok"
                 /\ ShapeTypeCode(hres.val.shape_type) = c
                 /\ hres.val.file_length = i32_from_BigEndian(SubSeq(hbuf, 25, 28))
                 /\ hres.val.version = i32_from_LittleEndian(SubSeq(hbuf, 29, 32))
                 /\ hres.val.point_min[3] = Reverse(SubSeq(hbuf, 69, 76))
                 /\ hres.val.m_range[2] = Reverse(SubSeq(hbuf, 93, 100))
                 /\ hres.consumed = BigOfNat(HEADER_SIZE)
            ELSE /\ hres.status = "InvalidShapeType"
                 /\ hres.code = c

\* C8 witness: a source with a non-zero unused byte, a negative file length
\* and trailing bytes after the header was decoded into a header; and the
\* rejected case is the one C8_Original fails on.
C8_Witness ==
    /\ C8_Case
    /\ hbuf[5] = 7
    /\ Len(hbuf) > HEADER_SIZE
    /\ hres.status = "Ok"
    /\ hres.val.file_length = -2

(***************************************************************************)
(* The shape codecs driven as a state machine: a shape is built with new, *)
(* possibly has its public bbox field overwritten, is written and read    *)
(* back; or a source is prepared by hand and decoded.                     *)
(***************************************************************************)
\* three points of each point type
SomePoints(pt) ==
    CASE pt = "Point" ->
            {[x |-> F1, y |-> F2], [x |-> F3, y |-> FNeg1], [x |-> F0, y |-> F0]}
      [] pt = "PointM" ->
            {[x |-> F1, y |-> F2, m |-> F5], [x |-> F3, y |-> FNeg1, m |-> NO_DATA],
             [x |-> F0, y |-> F0, m |-> F4]}
      [] pt = "PointZ" ->
            {[x |-> F1, y |-> F2, z |-> F6, m |-> F5],
             [x |-> F3, y |-> FNeg1, z |-> F0, m |-> NO_DATA],
             [x |-> F0, y |-> F0, z |-> FNeg1, m |-> F4]}

\* the four points (1, 1), (2, 2), (3, 3), (4, 4) of the polyline example,
\* the other components at their default
ExamplePoints(pt) ==
    <<[PointDefault(pt) EXCEPT !.x = F1, !.y = F1],
      [PointDefault(pt) EXCEPT !.x = F2, !.y = F2],
      [PointDefault(pt) EXCEPT !.x = F3, !.y = F3],
      [PointDefault(pt) EXCEPT !.x = F4, !.y = F4]>>

\* the point sequences of at most MaxPoints points, and the example
PointSeqs(pt) ==
    UNION {[1..n -> SomePoints(pt)] : n \in 0..MaxPoints} \cup {ExamplePoints(pt)}

\* parts arrays, valid and not
PartsChoices ==
    {<<>>, <<0>>, <<0, 1>>, <<1>>, <<0, 0>>, <<1, 0>>, <<0, 2>>, <<-1>>}

\* a box that is the bounding box of no point sequence above
StaleBox == BBox(F5, F5, F6, F6)

\* num_points values near 2^28 and 2^29, where the sizes computed in usize
\* no longer fit an i32
HugeCounts == {268435456, 536870910}

\* the doubles that fill a source prepared by hand
Filler == <<F1, F2, F3, FNeg1, F5, F6, NO_DATA, F4>>

\* the bytes after the two counts of a source prepared by hand: num_parts
\* parts 0, 1, .. and then doubles, cut to n bytes
CraftBody(num_parts, n) ==
    SubSeq(write_parts([i \in 1..num_parts |-> i - 1])
               \o Concat([i \in 1..(n \div SizeOfF64 + 1) |->
                            write_f64_LittleEndian(Filler[((i - 1) % Len(Filler)) + 1])]),
           1, n)

\* the longest body: the parts, MaxPoints points with z and m, both ranges
MaxBody ==
    SizeOfI32 * MaxParts + 4 * SizeOfF64 * MaxPoints + 4 * SizeOfF64

\* the record sizes tried for the counts: every expected size, and two
\* sizes that are none of them
RecordSizes(num_points, num_parts) ==
    {AsI32(Polyline_size_of_record(num_points, num_parts)),
     AsI32(PolylineM_size_of_record(num_points, num_parts, TRUE)),
     AsI32(PolylineZ_size_of_record(num_points, num_parts, FALSE)),
     AsI32(PolylineZ_size_of_record(num_points, num_parts, TRUE)),
     AsI32(Polyline_size_of_record(num_points, num_parts)) + SizeOfI32,
     0}

ShapeInit ==
    /\ pc = "start"
    /\ kind \in Kinds
    /\ shape = NoValue
    /\ src = NoValue
    /\ record_size = 0
    /\ res = NoValue
    /\ wres = NoValue
    /\ hdr = NoValue
    /\ hbuf = <<>>
    /\ hres = NoValue
    /\ call = NoValue
    /\ ret = NoValue

HeaderVarsUnchanged == UNCHANGED <<hdr, hbuf, hres, call, ret>>

\* GenericPolyline::new(points, parts) / GenericPolygon::new(points, parts)
NewShape ==
    /\ pc = "start"
    /\ \E points \in PointSeqs(PointType(kind)), parts \in PartsChoices :
          shape' = GenericPolyline_new(points, parts)
    /\ pc' = "built"
    /\ UNCHANGED <<kind, src, record_size, res, wres>>
    /\ HeaderVarsUnchanged

\* shape.bbox = ..: the field is public
SetBBox ==
    /\ pc = "built"
    /\ shape' = [shape EXCEPT !.bbox = StaleBox]
    /\ pc' = "modified"
    /\ UNCHANGED <<kind, src, record_size, res, wres>>
    /\ HeaderVarsUnchanged

\* shape.write_to(&mut Vec::new())
WriteShape ==
    /\ pc \in {"built", "modified"}
    /\ wres' = write_to(kind, shape)
    /\ pc' = "written"
    /\ UNCHANGED <<kind, shape, src, record_size, res>>
    /\ HeaderVarsUnchanged

\* the written bytes become the source, with record_size = size_in_bytes()
Rewind ==
    /\ pc = "written"
    /\ wres.status = "Ok"
    /\ src' = Source(wres.bytes, FALSE)
    /\ record_size' = size_in_bytes(kind, shape)
    /\ pc' = "encoded"
    /\ UNCHANGED <<kind, shape, res, wres>>
    /\ HeaderVarsUnchanged

\* a source prepared by hand: a bbox, the two counts, then some bytes,
\* possibly followed by zero bytes without end
CraftSource ==
    /\ pc = "start"
    /\ \E num_parts \in 0..MaxParts,
          num_points \in (0..MaxPoints) \cup HugeCounts,
          n \in {4 * w : w \in 0..(MaxBody \div 4)},
          tail \in BOOLEAN :
          /\ src' = Source(Concat(<<BBox_write_to(StaleBox),
                                    write_i32_LittleEndian(num_parts),
                                    write_i32_LittleEndian(num_points),
                                    CraftBody(num_parts, n)>>), tail)
          /\ record_size' \in RecordSizes(num_points, num_parts)
    /\ pc' = "crafted"
    /\ UNCHANGED <<kind, shape, res, wres>>
    /\ HeaderVarsUnchanged

\* K::read_shape_content(&mut source, record_size)
ReadShape ==
    /\ pc \in {"encoded", "crafted"}
    /\ res' = read_shape_content(kind, src, record_size)
    /\ pc' = IF pc = "encoded" THEN "roundtrip" ELSE "decoded"
    /\ UNCHANGED <<kind, shape, src, record_size, wres>>
    /\ HeaderVarsUnchanged

Next == NewShape \/ SetBBox \/ WriteShape \/ Rewind \/ CraftSource \/ ReadShape

Spec == ShapeInit /\ [][Next]_vars

(***************************************************************************)
(* Properties of the shape codecs (checked under Spec).                   *)
(***************************************************************************)
\* a decoder has returned
Decoded == pc \in {"decoded", "roundtrip"}

\* the two counts as they stand in the source, after the 32 bytes of bbox
SrcNumParts == i32_from_LittleEndian(SubSeq(src.bytes, 33, 36))
SrcNumPoints == i32_from_LittleEndian(SubSeq(src.bytes, 37, 40))

\* the size of the record of the variant under test for the counts of the
\* source, with and without the M block, as a usize
SizeWithM ==
    IF kind \in ZKinds
    THEN PolylineZ_size_of_record(SrcNumPoints, SrcNumParts, TRUE)
    ELSE PolylineM_size_of_record(SrcNumPoints, SrcNumParts, TRUE)
SizeWithoutM ==
    IF kind \in ZKinds
    THEN PolylineZ_size_of_record(SrcNumPoints, SrcNumParts, FALSE)
    ELSE PolylineM_size_of_record(SrcNumPoints, SrcNumParts, FALSE)

\* the sizes a record of the variant under test may have for the counts of
\* the source, cast to i32
ExpectedSizes ==
    IF kind \in MKinds \cup ZKinds
    THEN {AsI32(SizeWithM), AsI32(SizeWithoutM)}
    ELSE {AsI32(Polyline_size_of_record(SrcNumPoints, SrcNumParts))}

\* where the Z values and the M values of the record start
ZStart == BigPlus(Polyline_size_of_record(SrcNumPoints, SrcNumParts), 2 * SizeOfF64)
MStart == BigPlus(SizeWithoutM, 2 * SizeOfF64)

\* the decoded points carry the M values (the Z values) of the source
MsFromSource ==
    \A i \in 1..Len(res.val.points) :
        res.val.points[i].m = F64At(src, MStart, SizeOfF64 * (i - 1))
ZsFromSource ==
    \A i \in 1..Len(res.val.points) :
        res.val.points[i].z = F64At(src, ZStart, SizeOfF64 * (i - 1))
MsDefault ==
    \A i \in 1..Len(res.val.points) : res.val.points[i].m = NO_DATA

\* what C1 says of every successful M or Z decode, but for the without-M
\* case
C1_Common ==
    /\ res.m_read <=> record_size = AsI32(SizeWithM)
    /\ res.m_read => MsFromSource /\ res.consumed = SizeWithM
    /\ kind \in ZKinds => res.z_read /\ ZsFromSource
    /\ kind \in MKinds => ~res.z_read

C1_Case == Decoded /\ kind \in MKinds \cup ZKinds /\ res.status = "Ok"

C2_InvalidRecordSize ==
    (Decoded /\ Len(src.bytes) >= 40 /\ record_size \notin ExpectedSizes) =>
        res.status = "InvalidShapeRecordSize"

\* C3 as stated: a decoder that returns Ok has consumed exactly record_size
\* bytes.
C3_ConsumesRecordSize ==
    (Decoded /\ res.status = "Ok") =>
        res.consumed.q = 0 /\ res.consumed.r = record_size

\* C4: a shape with a valid parts array that is written and decoded with
\* record_size = size_in_bytes() comes back Ok with the same bbox, parts and
\* points.
C4_ShapeRoundTrip ==
    pc = "roundtrip" =>
        /\ res.status = "Ok"
        /\ res.val.bbox = shape.bbox
        /\ res.val.parts = shape.parts
        /\ res.val.points = shape.points

\* C4 witness: a PolygonZ of two points in two parts, one of them without a
\* measure, has been written and read back.
C4_Witness ==
    /\ pc = "roundtrip" /\ kind = "PolygonZ"
    /\ shape.parts = <<0, 1>>
    /\ Len(shape.points) = 2
    /\ shape.points[1].m = NO_DATA /\ shape.points[2].m = F5
    /\ res.status = "Ok"

\* the parts array of the shape is valid, as the claim words it
C9_PartsValid ==
    /\ Len(shape.parts) > 0
    /\ shape.parts[1] = 0
    /\ \A i, j \in 1..Len(shape.parts) : i < j => shape.parts[i] < shape.parts[j]
    /\ \A i \in 1..Len(shape.parts) :
          0 <= shape.parts[i] /\ shape.parts[i] < Len(shape.points)

\* C9: write_to of a shape whose parts array is not valid returns
\* MalformedShape and writes nothing; of a shape whose parts array is valid
\* it does not return MalformedShape.
C9_MalformedShape ==
    pc = "written" =>
        IF C9_PartsValid
        THEN wres.status = "Ok" /\ wres.bytes # <<>>
        ELSE wres.status = "MalformedShape" /\ wres.bytes = <<>>

\* C9 witness: a shape of two points whose parts array is not increasing
\* was handed to write_to.
C9_Witness ==
    /\ pc = "written"
    /\ shape.parts = <<0, 0>> /\ Len(shape.points) = 2
    /\ wres.status = "MalformedShape"

\* C10 as stated: the bbox written at the start of the content is the
\* bounding box of the points of the shape, not the stored bbox field.
C10_BBoxRecomputed ==
    (pc = "written" /\ wres.status = "Ok") =>
        SubSeq(wres.bytes, 1, 4 * SizeOfF64)
            = BBox_write_to(BBox_from_points(shape.points))

\* C11: the number of bytes write_to emits is size_in_bytes(), which is
\* the decoder's size_of_record(points.len(), parts.len()) for the plain
\* variants and size_of_record(points.len(), parts.len(), true) for the M
\* and Z variants; 112 bytes for a Polyline of 4 points and 2 parts, 108
\* bytes for a PolylineM of 2 points and 1 part.
C11_SizeInBytes ==
    (pc = "written" /\ wres.status = "Ok") =>
        LET n == Len(shape.points)
            p == Len(shape.parts)
        IN  /\ Len(wres.bytes) = size_in_bytes(kind, shape)
            /\ BigOfNat(Len(wres.bytes)) =
                  (IF kind \in ZKinds THEN PolylineZ_size_of_record(n, p, TRUE)
                   ELSE IF kind \in MKinds THEN PolylineM_size_of_record(n, p, TRUE)
                   ELSE Polyline_size_of_record(n, p))
            /\ (kind = "Polyline" /\ n = 4 /\ p = 2) => Len(wres.bytes) = 112
            /\ (kind = "PolylineM" /\ n = 2 /\ p = 1) => Len(wres.bytes) = 108

\* C11 witness: the Polyline of the points (1,1), (2,2), (3,3), (4,4) in the
\* parts 0 and 2 has been written, in 112 bytes.
C11_Witness ==
    /\ pc = "written" /\ kind = "Polyline"
    /\ shape.points = ExamplePoints("Point") /\ shape.parts = <<0, 2>>
    /\ wres.status = "Ok" /\ Len(wres.bytes) = 112

\* an M or Z decoder has run on a source whose counts make the with-M size
\* and the without-M size the same i32, and record_size is that value
C13_Tie ==
    /\ Decoded /\ kind \in MKinds \cup ZKinds
    /\ AsI32(SizeWithM) = AsI32(SizeWithoutM)
    /\ record_size = AsI32(SizeWithM)

Coordinate(x, y) == [x |-> x, y |-> y]

\* PointType::from(Coordinate): x and y of the coordinate, the rest default
PointType_from(pt, c) == [PointDefault(pt) EXCEPT !.x = c.x, !.y = c.y]

\* line.into_iter().map(|p| PointType::from(p)).collect()
collect_points(pt, line) == [i \in 1..Len(line) |-> PointType_from(pt, line[i])]

\* the small whole numbers as doubles, and back
F64OfInt(i) ==
    CASE i = -1 -> FNeg1 [] i = 0 -> F0 [] i = 1 -> F1 [] i = 2 -> F2
      [] i = 3 -> F3 [] i = 4 -> F4 [] i = 5 -> F5 [] i = 6 -> F6
IntOfF64(f) == CHOOSE i \in -1..6 : F64OfInt(i) = f

\* twice the signed area of a ring, the sum over its consecutive pairs of
\* (x2 - x1) * (y2 + y1); exact on whole numbers
RECURSIVE signed_area(_)
signed_area(points) ==
    IF Len(points) < 2 THEN 0
    ELSE (IntOfF64(points[2].x) - IntOfF64(points[1].x))
             * (IntOfF64(points[2].y) + IntOfF64(points[1].y))
         + signed_area(Tail(points))

\* is_outer_ring: the signed area is not negative
is_outer_ring(points) == signed_area(points) >= 0

\* GenericPolygon::new
GenericPolygon_new(points, parts) == GenericPolyline_new(points, parts)

\* From<geo_types::MultiLineString<f64>> for GenericPolyline: the loop over
\* the line strings that are left, and the whole conversion
RECURSIVE from_mls_loop(_, _, _, _, _)
from_mls_loop(pt, mls, points, parts, point_index) ==
    IF mls = <<>> THEN GenericPolyline_new(points, parts)
    ELSE LET parts1 == Append(parts, point_index)
             points1 == points \o collect_points(pt, Head(mls))
         IN  from_mls_loop(pt, Tail(mls), points1, parts1,
                           point_index + Len(points1))

GenericPolyline_from_MultiLineString(pt, mls) ==
    from_mls_loop(pt, mls, <<>>, <<>>, 0)

\* From<geo_types::Polygon<f64>> for GenericPolygon: the loop over the
\* interior rings that are left, and the whole conversion
RECURSIVE from_polygon_loop(_, _, _, _)
from_polygon_loop(pt, inners_ls, all_points, parts) ==
    IF inners_ls = <<>> THEN GenericPolygon_new(all_points, parts)
    ELSE LET parts1 == Append(parts, Len(all_points) - 1)
             inner_points == collect_points(pt, Head(inners_ls))
             oriented == IF is_outer_ring(inner_points)
                         THEN Reverse(inner_points) ELSE inner_points
         IN  from_polygon_loop(pt, Tail(inners_ls), all_points \o oriented, parts1)

GenericPolygon_from_Polygon(pt, polygon) ==
    IF Len(polygon.exterior) = 0 THEN GenericPolygon_new(<<>>, <<>>)
    ELSE LET outer_points == collect_points(pt, polygon.exterior)
             oriented == IF ~is_outer_ring(outer_points)
                         THEN Reverse(outer_points) ELSE outer_points
         IN  from_polygon_loop(pt, polygon.interiors, oriented, <<0>>)

(***************************************************************************)
(* The functions called on their own: the size arithmetic and the          *)
(* conversions from geo_types.                                             *)
(***************************************************************************)
CallInit ==
    /\ pc = "start"
    /\ call = NoValue
    /\ ret = NoValue
    /\ kind = "none"
    /\ shape = NoValue
    /\ src = NoValue
    /\ record_size = 0
    /\ res = NoValue
    /\ wres = NoValue
    /\ hdr = NoValue
    /\ hbuf = <<>>
    /\ hres = NoValue

CodecVarsUnchanged ==
    UNCHANGED <<hdr, hbuf, hres, kind, shape, src, record_size, res, wres>>

\* size_of_record of one of the three variants is called
CallSizeOfRecord ==
    /\ pc = "start"
    /\ \E variant \in {"Polyline", "PolylineM", "PolylineZ"},
          num_points \in 0..MaxSizePoints, num_parts \in 0..MaxSizeParts,
          with_m \in BOOLEAN :
          /\ variant = "Polyline" => ~with_m
          /\ call' = [fn |-> "size_of_record", variant |-> variant,
                      num_points |-> num_points, num_parts |-> num_parts,
                      is_m_used |-> with_m]
          /\ ret' = CASE variant = "Polyline" ->
                           Polyline_size_of_record(num_points, num_parts)
                      [] variant = "PolylineM" ->
                           PolylineM_size_of_record(num_points, num_parts, with_m)
                      [] variant = "PolylineZ" ->
                           PolylineZ_size_of_record(num_points, num_parts, with_m)
    /\ pc' = "returned"
    /\ CodecVarsUnchanged

PointTypes == {"Point", "PointM", "PointZ"}

\* the line strings of at most MaxLineLen points
LineStrings ==
    UNION {[1..n -> {Coordinate(F0, F0), Coordinate(F1, F2)}] : n \in 0..MaxLineLen}

\* the multi-line-strings of at most MaxLines line strings
MultiLineStrings == UNION {[1..k -> LineStrings] : k \in 0..MaxLines}

\* a closed ring through the corners given as pairs of whole numbers
Ring(corners) ==
    [i \in 1..Len(corners) + 1 |->
        LET c == corners[IF i > Len(corners) THEN 1 ELSE i]
        IN  Coordinate(F64OfInt(c[1]), F64OfInt(c[2]))]

\* exterior rings: none, a square and a triangle, each in both orientations
Exteriors ==
    LET square == Ring(<<<<0, 0>>, <<6, 0>>, <<6, 6>>, <<0, 6>>>>)
        triangle == Ring(<<<<0, 0>>, <<6, 0>>, <<0, 6>>>>)
    IN  {<<>>, square, Reverse(square), triangle, Reverse(triangle)}

\* three triangular holes inside both exteriors, apart from each other
Holes ==
    {Ring(<<<<1, 1>>, <<2, 1>>, <<1, 2>>>>),
     Ring(<<<<3, 1>>, <<4, 1>>, <<3, 2>>>>),
     Ring(<<<<1, 3>>, <<2, 3>>, <<1, 4>>>>)}

\* the holes in both orientations
Interiors == Holes \cup {Reverse(h) : h \in Holes}

Corners(ring) == {ring[i] : i \in 1..Len(ring)}

\* the polygons of at most MaxInteriors different holes
Polygons ==
    {[exterior |-> e, interiors |-> is] :
        e \in Exteriors,
        is \in {s \in UNION {[1..k -> Interiors] : k \in 0..MaxInteriors} :
                   \A i, j \in 1..Len(s) :
                       i # j => Corners(s[i]) # Corners(s[j])}}

\* a multi-line-string is converted into a polyline
FromMultiLineString ==
    /\ pc = "start"
    /\ \E pt \in PointTypes, mls \in MultiLineStrings :
          /\ call' = [fn |-> "from_multi_line_string", pt |-> pt, mls |-> mls]
          /\ ret' = GenericPolyline_from_MultiLineString(pt, mls)
    /\ pc' = "returned"
    /\ CodecVarsUnchanged

\* a polygon is converted into a shapefile polygon
FromPolygon ==
    /\ pc = "start"
    /\ \E pt \in PointTypes, polygon \in Polygons :
          /\ call' = [fn |-> "from_polygon", pt |-> pt, polygon |-> polygon]
          /\ ret' = GenericPolygon_from_Polygon(pt, polygon)
    /\ pc' = "returned"
    /\ CodecVarsUnchanged

CallNext == CallSizeOfRecord \/ FromMultiLineString \/ FromPolygon

CallSpec == CallInit /\ [][CallNext]_vars

\* PolylineZ::size_of_record(10, 3, true) has been called
C12_Case ==
    /\ pc = "returned" /\ call.fn = "size_of_record"
    /\ call.variant = "PolylineZ"
    /\ call.num_points = 10 /\ call.num_parts = 3 /\ call.is_m_used

\* C12 as stated: size_of_record(10, 3, true) of the Z variant is 236.
C12_Original == C12_Case => ret = BigOfNat(236)

\* C12 amended: size_of_record(10, 3, true) of the Z variant is 404: 40
\* bytes of bbox and counts, 12 of parts, 160 of XY pairs, and 16 + 80 for
\* each of the Z block and the M block.
C12_SizeOfRecordZ ==
    C12_Case =>
        /\ ret = BigOfNat(404)
        /\ ret = BigOfNat(40 + 4 * 3 + 16 * 10 + 2 * (16 + 8 * 10))

\* C12 witness: the call has returned 404.
C12_Witness == C12_Case /\ ret.q = 0 /\ ret.r = 404

\* the number of points of the first n of the line strings (or rings) ls
RECURSIVE PointsBefore(_, _)
PointsBefore(ls, n) ==
    IF n = 0 THEN 0 ELSE PointsBefore(ls, n - 1) + Len(ls[n])

\* the coordinates of the points of ret from index a + 1 to index a + n
RetCoordinates(a, n) ==
    [i \in 1..n |-> Coordinate(ret.points[a + i].x, ret.points[a + i].y)]

\* the exterior ring and the interior rings of the polygon converted
C14_Rings == <<call.polygon.exterior>> \o call.polygon.interiors

\* C14 as stated: converting a polygon with a non-empty exterior ring and k
\* interior rings lays the rings out exterior first, then the interiors in
\* order, and yields k + 1 parts, part j being the index in points of the
\* first point of ring j, the sum of the lengths of the rings before it; so
\* the parts are strictly increasing, start at 0, and no two rings overlap.
C14_PolygonParts ==
    (/\ pc = "returned" /\ call.fn = "from_polygon"
     /\ Len(call.polygon.exterior) > 0) =>
        LET rings == C14_Rings
            k == Len(call.polygon.interiors)
        IN  /\ Len(ret.points) = PointsBefore(rings, k + 1)
            /\ Len(ret.parts) = k + 1
            /\ ret.parts[1] = 0
            /\ \A j \in 1..k + 1 :
                  /\ ret.parts[j] = PointsBefore(rings, j - 1)
                  /\ RetCoordinates(PointsBefore(rings, j - 1), Len(rings[j]))
                         \in {rings[j], Reverse(rings[j])}
            /\ \A j \in 1..k : ret.parts[j] < ret.parts[j + 1]

\* C15 as stated: converting a multi-line-string of k line strings
\* concatenates their points in order and yields k parts, part i being the
\* total number of points of the line strings before line string i, for
\* every k.
C15_MultiLineStringParts ==
    (pc = "returned" /\ call.fn = "from_multi_line_string") =>
        LET k == Len(call.mls)
        IN  /\ RetCoordinates(0, Len(ret.points)) = Concat(call.mls)
            /\ Len(ret.parts) = k
            /\ \A i \in 1..k : ret.parts[i] = PointsBefore(call.mls, i - 1)

============================================================================
